---- MODULE Spec2Model ----
(***************************************************************************)
(* Model of src/net.rs: the TLS connector builder (ssl_connector,          *)
(* https_connector), the Auth selector (client, request, auth_header) and  *)
(* the URL scheme scanner (is_ssl).                                        *)
(*                                                                         *)
(* The file system and the TLS library are the environment: every path has *)
(* a fixed status, and the library accepts or rejects the cipher list.     *)
(* A process that has terminated (pretty_panic!, or unwrap() on an Err)    *)
(* takes no further step.                                                  *)
(***************************************************************************)
EXTENDS Integers, Sequences, FiniteSets, TLC

VARIABLES fs, cipherOk, auth, alive, last, clients

vars == <<fs, cipherOk, auth, alive, last, clients>>

(* ---- bounds ---- *)
NumPaths == 3
NumTokens == 2
MaxClients == 2
MaxUrls == 3

(* ---- environment ---- *)
Paths == 1..NumPaths
FileStatus == {"valid", "missing", "unreadable", "malformed"}
TokenNames == <<"T1", "T2", "T3", "T4">>
Tokens == {TokenNames[i] : i \in 1..NumTokens}

None == <<>>
Some(x) == <<x>>
OptionPath == {None} \cup {Some(p) : p \in Paths}

(* ---- TLS connector builder ---- *)
TLSv1_2_method == "TLSv1_2"

CipherList ==
  <<"DHE-RSA-AES128-GCM-SHA256", "DHE-RSA-AES256-GCM-SHA384",
    "DHE-RSA-AES128-SHA256", "DHE-RSA-AES256-SHA256",
    "DHE-RSA-CAMELLIA128-SHA", "DHE-RSA-AES128-SHA",
    "DHE-RSA-CAMELLIA256-SHA", "DHE-RSA-AES256-SHA", "AES128-GCM-SHA256",
    "AES256-GCM-SHA384", "CAMELLIA128-SHA", "AES128-SHA", "!aNULL", "!eNULL",
    "!EXPORT", "!DES", "!3DES", "!RC4", "!MD5">>

\* The ErrorStack a failing library call leaves behind names that call.
ErrorStack(func) == [func |-> func]
NoError == [func |-> "none"]

set_cipher_list == IF cipherOk THEN NoError ELSE ErrorStack("set_cipher_list")
set_ca_file(p) == IF fs[p] = "valid" THEN NoError ELSE ErrorStack("set_ca_file")
set_certificate_file(p) ==
  IF fs[p] = "valid" THEN NoError ELSE ErrorStack("set_certificate_file")
set_private_key_file(p) ==
  IF fs[p] = "valid" THEN NoError ELSE ErrorStack("set_private_key_file")

Err(e, calls) == [ok |-> FALSE, err |-> e, ctx |-> None, calls |-> calls]
Ok(ctx, calls) == [ok |-> TRUE, err |-> NoError, ctx |-> Some(ctx), calls |-> calls]

\* Variant: a failing CA load is ignored.
ssl_connector_ignore_ca(cacert, cert, key) ==
  LET c1 == <<<<"set_cipher_list", None>>>>
      c2 == Append(c1, <<"set_ca_file", Some(cacert)>>)
      c3 == IF cert # None THEN Append(c2, <<"set_certificate_file", cert>>) ELSE c2
      c4 == IF key # None THEN Append(c3, <<"set_private_key_file", key>>) ELSE c3
  IN  IF set_cipher_list # NoError THEN Err(set_cipher_list, c1)
      ELSE IF cert # None /\ set_certificate_file(cert[1]) # NoError
        THEN Err(set_certificate_file(cert[1]), c3)
      ELSE IF key # None /\ set_private_key_file(key[1]) # NoError
        THEN Err(set_private_key_file(key[1]), c4)
      ELSE Ok([method |-> TLSv1_2_method, ciphers |-> CipherList,
               ca |-> cacert, cert |-> cert, key |-> key], c4)

\* Variant: the context of an earlier client() is reused, no file is read.
ssl_connector_cached(cacert, cert, key) ==
  LET c1 == <<<<"set_cipher_list", None>>>>
      c2 == Append(c1, <<"set_ca_file", Some(cacert)>>)
      c3 == IF cert # None THEN Append(c2, <<"set_certificate_file", cert>>) ELSE c2
      c4 == IF key # None THEN Append(c3, <<"set_private_key_file", key>>) ELSE c3
  IN  IF clients # <<>> THEN Ok(clients[1].out.value.connector.ssl, <<>>)
      ELSE IF set_cipher_list # NoError THEN Err(set_cipher_list, c1)
      ELSE IF set_ca_file(cacert) # NoError THEN Err(set_ca_file(cacert), c2)
      ELSE IF cert # None /\ set_certificate_file(cert[1]) # NoError
        THEN Err(set_certificate_file(cert[1]), c3)
      ELSE IF key # None /\ set_private_key_file(key[1]) # NoError
        THEN Err(set_private_key_file(key[1]), c4)
      ELSE Ok([method |-> TLSv1_2_method, ciphers |-> CipherList,
               ca |-> cacert, cert |-> cert, key |-> key], c4)

\* Variant: the private key is loaded before the certificate.
ssl_connector_key_first(cacert, cert, key) ==
  LET c1 == <<<<"set_cipher_list", None>>>>
      c2 == Append(c1, <<"set_ca_file", Some(cacert)>>)
      c3 == IF key # None THEN Append(c2, <<"set_private_key_file", key>>) ELSE c2
      c4 == IF cert # None THEN Append(c3, <<"set_certificate_file", cert>>) ELSE c3
  IN  IF set_cipher_list # NoError THEN Err(set_cipher_list, c1)
      ELSE IF set_ca_file(cacert) # NoError THEN Err(set_ca_file(cacert), c2)
      ELSE IF key # None /\ set_private_key_file(key[1]) # NoError
        THEN Err(set_private_key_file(key[1]), c3)
      ELSE IF cert # None /\ set_certificate_file(cert[1]) # NoError
        THEN Err(set_certificate_file(cert[1]), c4)
      ELSE Ok([method |-> TLSv1_2_method, ciphers |-> CipherList,
               ca |-> cacert, cert |-> cert, key |-> key], c4)

\* Result<SslConnector, ErrorStack>, with the library calls made, in order.
ssl_connector(cacert, cert, key) ==
  LET c1 == <<<<"set_cipher_list", None>>>>
      c2 == Append(c1, <<"set_ca_file", Some(cacert)>>)
      c3 == IF cert # None THEN Append(c2, <<"set_certificate_file", cert>>) ELSE c2
      c4 == IF key # None THEN Append(c3, <<"set_private_key_file", key>>) ELSE c3
  IN  IF set_cipher_list # NoError THEN Err(set_cipher_list, c1)
      ELSE IF set_ca_file(cacert) # NoError THEN Err(set_ca_file(cacert), c2)
      ELSE IF cert # None /\ set_certificate_file(cert[1]) # NoError
        THEN Err(set_certificate_file(cert[1]), c3)
      ELSE IF key # None /\ set_private_key_file(key[1]) # NoError
        THEN Err(set_private_key_file(key[1]), c4)
      ELSE Ok([method |-> TLSv1_2_method, ciphers |-> CipherList,
               ca |-> cacert, cert |-> cert, key |-> key], c4)

(* ---- outcomes of a call ---- *)
NoValue == [kind |-> "none"]

\* The call returned value v after making the library calls `calls`.
Returned(v, calls) ==
  [returned |-> TRUE, cause |-> "none", err |-> NoError, value |-> v,
   calls |-> calls]

\* pretty_panic! prints its message and terminates the process.
pretty_panic(e, calls) ==
  [returned |-> FALSE, cause |-> "pretty_panic", err |-> e, value |-> NoValue,
   calls |-> calls]

\* Result::unwrap() on an Err panics.
unwrap_panic(e, calls) ==
  [returned |-> FALSE, cause |-> "unwrap", err |-> e, value |-> NoValue,
   calls |-> calls]

\* Variant: on a failed TLS context the plain connector is used instead.
https_connector_fallback(cacert, cert, key) ==
  LET r == ssl_connector(cacert, cert, key)
  IN  IF r.ok
      THEN Returned([kind |-> "HttpsConnector", ssl |-> r.ctx[1]], r.calls)
      ELSE Returned([kind |-> "HttpConnector"], r.calls)

https_connector(cacert, cert, key) ==
  LET r == ssl_connector(cacert, cert, key)
  IN  IF r.ok
      THEN Returned([kind |-> "HttpsConnector", ssl |-> r.ctx[1]], r.calls)
      ELSE pretty_panic(r.err, r.calls)

(* ---- Auth selector ---- *)
CertAuth(cacert, cert, key) ==
  [tag |-> "CertAuth", cacert |-> cacert, cert |-> cert, key |-> key]
NoAuth == [tag |-> "NoAuth"]
TokenAuth(cacert, token) == [tag |-> "TokenAuth", cacert |-> cacert, token |-> token]

Auth ==
  {CertAuth(a, b, c) : a \in Paths, b \in Paths, c \in Paths}
    \cup {NoAuth}
    \cup {TokenAuth(a, t) : a \in Paths, t \in Tokens}

XAuthentication == "X-Authentication"

\* Headers::set: the header replaces any header of the same name.
HeadersSet(headers, name, value) ==
  {h \in headers : h[1] # name} \cup {<<name, value>>}

HttpConnector == [kind |-> "HttpConnector"]

Client_with_connector(conn) == [kind |-> "Client", connector |-> conn]
Client_new == Client_with_connector(HttpConnector)

\* Variant: CertAuth builds the connector without the client key.
client_no_key(self) ==
  IF self.tag = "CertAuth" THEN
    LET conn == https_connector(self.cacert, Some(self.cert), None)
    IN  IF conn.returned
        THEN Returned(Client_with_connector(conn.value), conn.calls)
        ELSE conn
  ELSE IF self.tag = "TokenAuth" THEN
    LET conn == https_connector(self.cacert, None, None)
    IN  IF conn.returned
        THEN Returned(Client_with_connector(conn.value), conn.calls)
        ELSE conn
  ELSE Returned(Client_new, <<>>)

client(self) ==
  IF self.tag = "CertAuth" THEN
    LET conn == https_connector(self.cacert, Some(self.cert), Some(self.key))
    IN  IF conn.returned
        THEN Returned(Client_with_connector(conn.value), conn.calls)
        ELSE conn
  ELSE IF self.tag = "TokenAuth" THEN
    LET conn == https_connector(self.cacert, None, None)
    IN  IF conn.returned
        THEN Returned(Client_with_connector(conn.value), conn.calls)
        ELSE conn
  ELSE Returned(Client_new, <<>>)

Methods == {"Get", "Post"}
RequestUrls ==
  {[scheme |-> "http", host |-> "a"], [scheme |-> "https", host |-> "b"],
   [scheme |-> "data", host |-> ""]}

\* Request::with_connector: the URL needs a host, the connector opens the
\* stream (the plain connector only for http), and the Host header is set.
Request_with_connector(method, url, conn, netOk) ==
  IF url.host = "" THEN [ok |-> FALSE, err |-> ErrorStack("EmptyHost")]
  ELSE IF conn.kind = "HttpConnector" /\ url.scheme # "http"
    THEN [ok |-> FALSE, err |-> ErrorStack("InvalidScheme")]
  ELSE IF ~netOk THEN [ok |-> FALSE, err |-> ErrorStack("Io")]
  ELSE [ok |-> TRUE,
        req |-> [kind |-> "Request", method |-> method, url |-> url,
                 connector |-> conn, headers |-> {<<"Host", url.host>>}]]

request(self, method, url, netOk) ==
  IF self.tag = "CertAuth" THEN
    LET conn == https_connector(self.cacert, Some(self.cert), Some(self.key))
        r == Request_with_connector(method, url, conn.value, netOk)
    IN  IF ~conn.returned THEN conn
        ELSE IF ~r.ok THEN unwrap_panic(r.err, conn.calls)
        ELSE Returned(r.req, conn.calls)
  ELSE IF self.tag = "TokenAuth" THEN
    LET conn == https_connector(self.cacert, None, None)
        r == Request_with_connector(method, url, conn.value, netOk)
    IN  IF ~conn.returned THEN conn
        ELSE IF ~r.ok THEN unwrap_panic(r.err, conn.calls)
        ELSE Returned([r.req EXCEPT !.headers =
                         HeadersSet(@, XAuthentication, self.token)],
                      conn.calls)
  ELSE
    LET r == Request_with_connector(method, url, HttpConnector, netOk)
    IN  IF ~r.ok THEN unwrap_panic(r.err, <<>>)
        ELSE Returned(r.req, <<>>)

\* The request builders a caller may hand to auth_header.
Builders ==
  {[kind |-> "RequestBuilder", headers |-> h] :
     h \in {{}, {<<"Accept", "json">>}, {<<XAuthentication, "stale">>}}}

\* Variant: the header is attached in every mode.
auth_header_always(self, request_builder) ==
  [request_builder EXCEPT !.headers =
     HeadersSet(@, XAuthentication,
                IF self.tag = "TokenAuth" THEN self.token ELSE "")]

auth_header(self, request_builder) ==
  IF self.tag = "TokenAuth"
  THEN [request_builder EXCEPT !.headers =
          HeadersSet(@, XAuthentication, self.token)]
  ELSE request_builder

(* ---- URL scheme scanner ---- *)
Lowers == <<"a", "b", "c", "d", "e", "f", "g", "h", "i", "j", "k", "l", "m", "n", "o", "p", "q", "r", "s", "t", "u", "v", "w", "x", "y", "z">>
Uppers == <<"A", "B", "C", "D", "E", "F", "G", "H", "I", "J", "K", "L", "M", "N", "O", "P", "Q", "R", "S", "T", "U", "V", "W", "X", "Y", "Z">>
Digits == {"0", "1", "2", "3", "4", "5", "6", "7", "8", "9"}

IndexIn(c, seq) ==
  IF \E i \in 1..Len(seq) : seq[i] = c
  THEN CHOOSE i \in 1..Len(seq) : seq[i] = c
  ELSE 0

IsAlpha(c) == IndexIn(c, Lowers) > 0 \/ IndexIn(c, Uppers) > 0
IsSchemeChar(c) == IsAlpha(c) \/ c \in Digits \/ c \in {"+", "-", "."}
ToLower(c) == IF IndexIn(c, Uppers) > 0 THEN Lowers[IndexIn(c, Uppers)] ELSE c

\* Leading and trailing spaces are stripped before parsing.
RECURSIVE Trim(_)
Trim(s) ==
  IF s = <<>> THEN s
  ELSE IF Head(s) = " " THEN Trim(Tail(s))
  ELSE IF s[Len(s)] = " " THEN Trim(SubSeq(s, 1, Len(s) - 1))
  ELSE s

RECURSIVE SkipSlashes(_)
SkipSlashes(s) ==
  IF s # <<>> /\ Head(s) \in {"/", "\\"} THEN SkipSlashes(Tail(s)) ELSE s

SpecialSchemes == {<<"h", "t", "t", "p">>, <<"h", "t", "t", "p", "s">>, <<"f", "t", "p">>, <<"w", "s">>, <<"w", "s", "s">>}

UrlErr(e) == [ok |-> FALSE, err |-> e, scheme |-> <<>>]
UrlOk(scheme) == [ok |-> TRUE, err |-> "none", scheme |-> scheme]

\* Url::parse of an absolute URL string (no base URL): the scheme is the
\* text before the first ':', lower-cased; a special scheme needs a host.
Url_parse(input) ==
  LET s == Trim(input)
      colon == IndexIn(":", s)
      raw == SubSeq(s, 1, colon - 1)
      scheme == [i \in 1..Len(raw) |-> ToLower(raw[i])]
      rest == SkipSlashes(SubSeq(s, colon + 1, Len(s)))
  IN  IF colon <= 1 \/ ~IsAlpha(s[1])
         \/ \E i \in 1..(colon - 1) : ~IsSchemeChar(s[i])
      THEN UrlErr("RelativeUrlWithoutBase")
      ELSE IF scheme \in SpecialSchemes /\ (rest = <<>> \/ Head(rest) \in {"/", "?", "#"})
      THEN UrlErr("EmptyHost")
      ELSE IF scheme \in SpecialSchemes
              /\ \E i \in 1..Len(rest) : rest[i] = " "
      THEN UrlErr("InvalidDomainCharacter")
      ELSE UrlOk(scheme)

\* Iterator::any over the URLs from position i on: the closure parses the
\* URL, terminates the process on a parse error, and the scan stops at the
\* first URL for which the closure is true.
RECURSIVE any_from(_, _)
any_from(server_urls, i) ==
  IF i > Len(server_urls)
  THEN [returned |-> TRUE, cause |-> "none", value |-> FALSE, parsed |-> i - 1]
  ELSE LET u == Url_parse(server_urls[i])
       IN  IF ~u.ok
           THEN [returned |-> FALSE, cause |-> "pretty_panic", value |-> FALSE,
                 parsed |-> i]
           ELSE IF <<"h", "t", "t", "p", "s">> = u.scheme
           THEN [returned |-> TRUE, cause |-> "none", value |-> TRUE, parsed |-> i]
           ELSE any_from(server_urls, i + 1)

\* Variant: only the first URL is looked at.
is_ssl_first(server_urls) ==
  any_from(IF server_urls = <<>> THEN <<>> ELSE <<server_urls[1]>>, 1)

\* Variant: the scan starts at the second URL.
is_ssl_skip_first(server_urls) ==
  any_from(server_urls, 2)

\* Variant: a URL that does not parse counts as not secure.
is_ssl_lenient(server_urls) ==
  [returned |-> TRUE, cause |-> "none",
   value |-> \E i \in 1..Len(server_urls) :
               /\ Url_parse(server_urls[i]).ok
               /\ Url_parse(server_urls[i]).scheme = <<"h", "t", "t", "p", "s">>,
   parsed |-> Len(server_urls)]

is_ssl(server_urls) == any_from(server_urls, 1)

\* The URL strings the scanner is given.
UrlStrings ==
  {<<"h", "t", "t", "p", ":", "/", "/", "a">>,  \* "http://a"
   <<"h", "t", "t", "p", "s", ":", "/", "/", "b">>,  \* "https://b"
   <<"H", "T", "T", "P", "S", ":", "/", "/", "c">>,  \* "HTTPS://c"
   <<"n", "o", "t", " ", "a", " ", "u", "r", "l">>,  \* "not a url"
   <<"h", "t", "t", "p", "s", "x", ":", "e">>,  \* "httpsx:e"
   <<"h", "t", "t", "p", "s", ":", "/", "/">>,  \* "https://"
   <<" ", "h", "t", "t", "p", ":", "/", "/", "f">>}  \* " http://f"

RECURSIVE SeqsUpTo(_, _)
SeqsUpTo(S, n) ==
  IF n = 0 THEN {<<>>}
  ELSE LET shorter == SeqsUpTo(S, n - 1)
       IN  shorter \cup {Append(q, x) : q \in {r \in shorter : Len(r) = n - 1}, x \in S}

UrlVectors == SeqsUpTo(UrlStrings, MaxUrls)

(* ---- state machine ---- *)
NoCall ==
  [op |-> "none", self |-> NoAuth, args |-> <<>>, returned |-> TRUE,
   cause |-> "none", out |-> NoValue]

Call(op, args, out) ==
  [op |-> op, self |-> auth, args |-> args, returned |-> out.returned,
   cause |-> out.cause, out |-> out]

Init ==
  /\ fs \in [Paths -> FileStatus]
  /\ cipherOk \in BOOLEAN
  /\ auth \in Auth
  /\ alive = TRUE
  /\ last = NoCall
  /\ clients = <<>>

CallClient ==
  /\ alive
  /\ Len(clients) < MaxClients
  /\ LET out == client(auth)
     IN  /\ last' = Call("client", <<>>, out)
         /\ alive' = out.returned
         /\ clients' = IF out.returned
                        THEN Append(clients, Call("client", <<>>, out))
                        ELSE clients
  /\ UNCHANGED <<fs, cipherOk, auth>>

CallRequest(method, url, netOk) ==
  /\ alive
  /\ LET out == request(auth, method, url, netOk)
     IN  /\ last' = Call("request", <<method, url, netOk>>, out)
         /\ alive' = out.returned
  /\ UNCHANGED <<fs, cipherOk, auth, clients>>

CallAuthHeader(request_builder) ==
  /\ alive
  /\ last' = Call("auth_header", <<request_builder>>,
                  Returned(auth_header(auth, request_builder), <<>>))
  /\ UNCHANGED <<fs, cipherOk, auth, alive, clients>>

\* A direct caller of ssl_connector gets the Result back.
CallSslConnector(cacert, cert, key) ==
  /\ alive
  /\ LET r == ssl_connector(cacert, cert, key)
     IN  last' = Call("ssl_connector", <<cacert, cert, key>>,
                      [returned |-> TRUE, cause |-> "none", err |-> r.err,
                       value |-> r, calls |-> r.calls])
  /\ UNCHANGED <<fs, cipherOk, auth, alive, clients>>

CallHttpsConnector(cacert, cert, key) ==
  /\ alive
  /\ LET out == https_connector(cacert, cert, key)
     IN  /\ last' = Call("https_connector", <<cacert, cert, key>>, out)
         /\ alive' = out.returned
  /\ UNCHANGED <<fs, cipherOk, auth, clients>>

NextAuth ==
  \/ CallClient
  \/ \E method \in Methods, url \in RequestUrls, netOk \in BOOLEAN :
       CallRequest(method, url, netOk)
  \/ \E request_builder \in Builders : CallAuthHeader(request_builder)

SpecAuth == Init /\ [][NextAuth]_vars

(* ---- direct callers of the connector builder ---- *)
InitConn ==
  /\ fs \in [Paths -> FileStatus]
  /\ cipherOk \in BOOLEAN
  /\ auth = NoAuth
  /\ alive = TRUE
  /\ last = NoCall
  /\ clients = <<>>

NextConn ==
  \/ \E cacert \in Paths, cert \in OptionPath, key \in OptionPath :
       CallSslConnector(cacert, cert, key)
  \/ \E cacert \in Paths, cert \in OptionPath, key \in OptionPath :
       CallHttpsConnector(cacert, cert, key)

SpecConn == InitConn /\ [][NextConn]_vars

(* ---- the scanner on its own ---- *)
\* The vector of server URLs the process was configured with.
Configured(server_urls) ==
  [op |-> "configured", self |-> NoAuth, args |-> <<server_urls>>,
   returned |-> TRUE, cause |-> "none", out |-> NoValue]

InitUrl ==
  /\ fs = [p \in Paths |-> "valid"]
  /\ cipherOk = TRUE
  /\ auth = NoAuth
  /\ alive = TRUE
  /\ last \in {Configured(server_urls) : server_urls \in UrlVectors}
  /\ clients = <<>>

CallIsSsl ==
  /\ alive
  /\ last.op = "configured"
  /\ LET out == is_ssl(last.args[1])
     IN  /\ last' = Call("is_ssl", last.args, out)
         /\ alive' = out.returned
  /\ UNCHANGED <<fs, cipherOk, auth, clients>>

NextUrl == CallIsSsl

SpecUrl == InitUrl /\ [][NextUrl]_vars

(* ---- properties ---- *)
HTTPS == <<"h", "t", "t", "p", "s">>

CaLoadFailed == ErrorStack("set_ca_file")
ClientCertLoadFailed == ErrorStack("set_certificate_file")
ClientKeyLoadFailed == ErrorStack("set_private_key_file")
CipherPolicyRejected == ErrorStack("set_cipher_list")

UsesTls(a) == a.tag \in {"CertAuth", "TokenAuth"}
Valid(p) == fs[p] = "valid"
AllFilesValid(a) ==
  /\ UsesTls(a) => Valid(a.cacert)
  /\ a.tag = "CertAuth" => Valid(a.cert) /\ Valid(a.key)
TlsBuildFails(a) == UsesTls(a) /\ (~cipherOk \/ ~AllFilesValid(a))

HeaderValues(headers, name) == {h[2] : h \in {x \in headers : x[1] = name}}

\* C1: under CertAuth and TokenAuth, when any step of building the TLS
\* context fails, client() and request() terminate the process through
\* pretty_panic and return nothing, in particular no plain transport.
C1_NoSilentDowngrade ==
  (last.op \in {"client", "request"} /\ TlsBuildFails(last.self))
    => /\ ~last.returned
       /\ ~alive
       /\ last.cause = "pretty_panic"
       /\ last.out.value = NoValue

C1_Witness ==
  /\ last.op = "request"
  /\ last.self.tag = "CertAuth"
  /\ cipherOk /\ Valid(last.self.cacert) /\ Valid(last.self.cert)
  /\ ~Valid(last.self.key)
  /\ ~alive

\* C2: under TokenAuth with token T a returned request and a decorated
\* builder carry X-Authentication with exactly the value T; under CertAuth
\* and NoAuth request() returns no such header and auth_header returns the
\* builder as it was; a builder without the header ends up with the same
\* X-Authentication values as a request of the same Auth value.
C2_HeaderEquivalence ==
  /\ (last.op = "request" /\ last.returned)
       => HeaderValues(last.out.value.headers, XAuthentication)
            = IF last.self.tag = "TokenAuth" THEN {last.self.token} ELSE {}
  /\ last.op = "auth_header"
       => /\ last.self.tag = "TokenAuth"
               => HeaderValues(last.out.value.headers, XAuthentication)
                    = {last.self.token}
          /\ last.self.tag # "TokenAuth" => last.out.value = last.args[1]
          /\ HeaderValues(last.args[1].headers, XAuthentication) = {}
               => \A method \in Methods, url \in RequestUrls :
                    LET r == request(last.self, method, url, TRUE)
                    IN  r.returned
                          => HeaderValues(r.value.headers, XAuthentication)
                               = HeaderValues(last.out.value.headers,
                                              XAuthentication)

C2_Witness ==
  /\ last.op = "auth_header"
  /\ last.self.tag = "TokenAuth"
  /\ HeaderValues(last.args[1].headers, XAuthentication) = {"stale"}
  /\ HeaderValues(last.out.value.headers, XAuthentication) = {last.self.token}
  /\ \E method \in Methods, url \in RequestUrls :
       request(last.self, method, url, TRUE).returned

ExpectedCalls(a) ==
  IF a.tag = "CertAuth"
  THEN <<<<"set_cipher_list", None>>, <<"set_ca_file", Some(a.cacert)>>,
         <<"set_certificate_file", Some(a.cert)>>,
         <<"set_private_key_file", Some(a.key)>>>>
  ELSE IF a.tag = "TokenAuth"
  THEN <<<<"set_cipher_list", None>>, <<"set_ca_file", Some(a.cacert)>>>>
  ELSE <<>>

CapabilityMatches(a, out) ==
  /\ out.calls = ExpectedCalls(a)
  /\ out.value.kind = "Client"
  /\ a.tag = "CertAuth"
       => /\ out.value.connector.kind = "HttpsConnector"
          /\ out.value.connector.ssl.ca = a.cacert
          /\ out.value.connector.ssl.cert = Some(a.cert)
          /\ out.value.connector.ssl.key = Some(a.key)
  /\ a.tag = "TokenAuth"
       => /\ out.value.connector.kind = "HttpsConnector"
          /\ out.value.connector.ssl.ca = a.cacert
          /\ out.value.connector.ssl.cert = None
          /\ out.value.connector.ssl.key = None
  /\ a.tag = "NoAuth" => out.value.connector = HttpConnector

AllParse(urls) == \A i \in 1..Len(urls) : Url_parse(urls[i]).ok
HasHttps(urls) ==
  \E i \in 1..Len(urls) : Url_parse(urls[i]).ok /\ Url_parse(urls[i]).scheme = HTTPS

\* C4: for a vector of URLs that all parse, is_ssl returns, and returns true
\* exactly when at least one URL has scheme https.
C4_TrueIffHttps ==
  (last.op = "is_ssl" /\ AllParse(last.args[1]))
    => /\ last.returned
       /\ last.out.value = HasHttps(last.args[1])

C4_Witness ==
  /\ last.op = "is_ssl"
  /\ Len(last.args[1]) = 2
  /\ AllParse(last.args[1])
  /\ Url_parse(last.args[1][1]).scheme # HTTPS
  /\ Url_parse(last.args[1][2]).scheme = HTTPS
  /\ last.out.value = TRUE

\* Position of the first URL that does not parse (0: all parse).
FirstBad(urls) ==
  IF AllParse(urls) THEN 0
  ELSE CHOOSE i \in 1..Len(urls) :
         /\ ~Url_parse(urls[i]).ok
         /\ \A j \in 1..(i - 1) : Url_parse(urls[j]).ok

HttpsBefore(urls, k) ==
  \E j \in 1..(k - 1) : Url_parse(urls[j]).scheme = HTTPS

\* C5 as stated: a vector with an unparseable URL at any position is fatal.
C5_Original ==
  (last.op = "is_ssl" /\ ~AllParse(last.args[1])) => ~last.returned

\* C5 amended: a vector with an unparseable URL is fatal when no URL before
\* the first unparseable one has scheme https; otherwise the scan stops at
\* that https URL, the unparseable URL is never parsed and true is returned.
C5_Amended ==
  (last.op = "is_ssl" /\ ~AllParse(last.args[1]))
    => LET k == FirstBad(last.args[1])
       IN  IF HttpsBefore(last.args[1], k)
           THEN last.returned /\ last.out.value = TRUE /\ last.out.parsed < k
           ELSE ~last.returned /\ ~alive /\ last.out.parsed = k

C5_Witness ==
  /\ last.op = "is_ssl"
  /\ Len(last.args[1]) = 3
  /\ FirstBad(last.args[1]) = 3
  /\ ~HttpsBefore(last.args[1], 3)
  /\ ~alive

Perms(q) ==
  {[i \in 1..Len(q) |-> q[f[i]]] :
     f \in {g \in [1..Len(q) -> 1..Len(q)] :
              \A i, j \in 1..Len(q) : g[i] = g[j] => i = j}}

SameOutcome(x, y) == x.returned = y.returned /\ x.value = y.value

\* C6 as stated: every permutation of the input has the same outcome.
C6_Original ==
  last.op = "is_ssl"
    => \A q \in Perms(last.args[1]) : SameOutcome(is_ssl(q), last.out)

\* C6 amended: every permutation of the input has the same outcome unless
\* the input holds both an unparseable URL and an https URL.
C6_Amended ==
  (last.op = "is_ssl" /\ (AllParse(last.args[1]) \/ ~HasHttps(last.args[1])))
    => \A q \in Perms(last.args[1]) : SameOutcome(is_ssl(q), last.out)

C6_Witness ==
  /\ last.op = "is_ssl"
  /\ Len(last.args[1]) = 3
  /\ AllParse(last.args[1])
  /\ Url_parse(last.args[1][3]).scheme = HTTPS
  /\ Url_parse(last.args[1][1]).scheme # HTTPS
  /\ last.out.value = TRUE

\* C7 as stated: with a CA path that is not a valid file the TLS context
\* fails with the CA load error and no client or request is returned.
C7_Original ==
  (last.op \in {"client", "request"} /\ UsesTls(last.self)
     /\ ~Valid(last.self.cacert))
    => ~last.returned /\ last.out.err = CaLoadFailed

\* C7 amended: with a CA path that is not a valid file, and the cipher list
\* accepted, the TLS context fails with the CA load error, which differs
\* from the certificate and key load errors, and no client or request is
\* returned; with the cipher list rejected the error is that of the cipher
\* list and nothing is returned either.
C7_Amended ==
  (last.op \in {"client", "request"} /\ UsesTls(last.self)
     /\ ~Valid(last.self.cacert))
    => /\ ~last.returned /\ ~alive
       /\ last.out.err = IF cipherOk THEN CaLoadFailed ELSE CipherPolicyRejected
       /\ last.out.err \notin {ClientCertLoadFailed, ClientKeyLoadFailed, NoError}

C7_Witness ==
  /\ last.op = "client"
  /\ last.self.tag = "CertAuth"
  /\ cipherOk
  /\ fs[last.self.cacert] = "missing"
  /\ ~Valid(last.self.cert)
  /\ last.out.err = CaLoadFailed
  /\ ~alive

\* C8: whenever ssl_connector turns a configuration into a TLS context, a
\* client certificate path is present exactly when a client key path is.
C8_CertIffKey ==
  (/\ last.op \in {"ssl_connector", "https_connector"}
   /\ last.out.err = NoError)
    => (last.args[2] # None <=> last.args[3] # None)

StepOk(step) ==
  IF step[1] = "set_cipher_list" THEN cipherOk ELSE Valid(step[2][1])

Steps(cacert, cert, key) ==
  <<<<"set_cipher_list", None>>, <<"set_ca_file", Some(cacert)>>>>
    \o (IF cert # None THEN <<<<"set_certificate_file", cert>>>> ELSE <<>>)
    \o (IF key # None THEN <<<<"set_private_key_file", key>>>> ELSE <<>>)

\* C10: ssl_connector makes its library calls in the order cipher list, CA,
\* certificate, key, stops at the first call that fails and returns that
\* call's error; it returns a context only when every requested call
\* succeeded.
C10_StepOrder ==
  last.op = "ssl_connector"
    => LET steps == Steps(last.args[1], last.args[2], last.args[3])
           r == last.out.value
           n == Len(r.calls)
       IN  /\ n >= 1 /\ n <= Len(steps)
           /\ r.calls = SubSeq(steps, 1, n)
           /\ \A i \in 1..(n - 1) : StepOk(steps[i])
           /\ r.ok <=> (n = Len(steps) /\ StepOk(steps[n]))
           /\ r.ok => r.err = NoError /\ r.ctx # None
           /\ ~r.ok => /\ ~StepOk(steps[n])
                       /\ r.err = ErrorStack(steps[n][1])
                       /\ r.ctx = None

C10_Witness ==
  /\ last.op = "ssl_connector"
  /\ last.args[2] # None /\ last.args[3] # None
  /\ cipherOk /\ Valid(last.args[1])
  /\ ~Valid(last.args[2][1]) /\ ~Valid(last.args[3][1])
  /\ last.out.value.err = ClientCertLoadFailed
  /\ Len(last.out.value.calls) = 3

====
